---- MODULE Spec2Model ----
(***************************************************************************)
(* The notification delivery subsystem of src/notification_system.py:      *)
(* NotificationDatabase (the store), AlertRuleManager, NotificationWorker  *)
(* (the delivery loop) and NotificationSystem (the facade).                *)
(*                                                                         *)
(* Optional[T] values are <<>> (None) or <<x>>.  The store is modelled by   *)
(* the effect of its SQL statements on the notifications and               *)
(* notification_audit tables.                                              *)
(*                                                                         *)
(* Time is counted in minutes and every timestamp is kept relative to the  *)
(* current instant: a datetime field holds (value - datetime.utcnow()), so *)
(* utcnow() is 0, a past timestamp is negative and a next_retry still to   *)
(* come is positive.  When a minute passes (Tick) every stored timestamp   *)
(* drops by one.  A timestamp more than PastCap minutes old is kept as     *)
(* PastCap minutes old.                                                    *)
(***************************************************************************)
EXTENDS Integers, Sequences, FiniteSets, TLC

VARIABLES
    store,      \* notifications table: id -> row
    audit,      \* notification_audit table, in insertion order
    queue,      \* NotificationWorker.queue: the Notification objects put by add_notification
    running,    \* NotificationWorker.running
    stats,      \* NotificationWorker.stats
    wpc,        \* per worker thread: position in _worker_loop
    wcur,       \* per worker thread: the Notification object being processed
    wgot,       \* per worker thread: that object as it was when the worker obtained it
    wfrom,      \* per worker thread: "queue" or "scan", the call site of _process_notification
    wpending,   \* per worker thread: the rest of the list get_pending_notifications returned
    rules,      \* AlertRuleManager.rules, in registration order
    fpc,        \* caller thread: position inside the facade call in progress
    fop,        \* caller thread: the facade call in progress
    freqs,      \* caller thread: the send_notification calls the facade call still has to make
    fids,       \* caller thread: notification_ids collected so far
    fnew,       \* caller thread: the Notification saved and not yet put on the queue
    fret,       \* caller thread: the last facade call and what it returned
    nextId,     \* number of ids generate_notification_id has produced, plus one
    emailSender,\* whether NotificationSystem was given an email_config (an SMTPEmailSender exists)
    dbFaults,   \* how many more sqlite operations raise (a locked or unwritable database file)
    seen        \* history: per id, whether a transport call for it has succeeded (ok), has
                \* failed (fail), and the outcome of the latest one (last)

storeVars  == <<store, audit>>
workerVars == <<queue, running, stats, wpc, wcur, wgot, wfrom, wpending>>
loopVars   == <<wpc, wcur, wgot, wfrom, wpending>>
facadeVars == <<fpc, fop, freqs, fids, fnew, fret, nextId>>
envVars    == <<emailSender, dbFaults>>
vars == <<store, audit, queue, running, stats, wpc, wcur, wgot, wfrom, wpending,
          rules, fpc, fop, freqs, fids, fnew, fret, nextId, emailSender, dbFaults, seen>>

----------------------------------------------------------------------------
(* Bounds of the model *)

MaxNotifs == 2
MaxThreads == 2
PastCap == 1
MaxFaults == 2
MaxRetriesDrawn == 7

(* Program constants *)

DefaultMaxRetries == 3
BackoffCapMinutes == 60
MinutesPerDay == 1440

----------------------------------------------------------------------------
(* Values *)

None == <<>>
Some(x) == <<x>>

Threads == 1..MaxThreads
Ids == 1..MaxNotifs

NotificationLevel == {"DEBUG", "INFO", "WARNING", "ERROR", "CRITICAL"}
NotificationStatus == {"PENDING", "SENT", "FAILED", "RETRYING", "ARCHIVED"}

Min(a, b) == IF a < b THEN a ELSE b
Max(a, b) == IF a > b THEN a ELSE b

\* datetime.utcnow()
Now == 0

RECURSIVE Pow2(_)
Pow2(n) == IF n = 0 THEN 1 ELSE 2 * Pow2(n - 1)

Range(s) == {s[i] : i \in 1..Len(s)}

----------------------------------------------------------------------------
(* Events and alert rule conditions *)

EvFailure   == [event_type |-> "migration_failed", metric |-> "none", value |-> 0, numeric |-> TRUE]
EvMemory    == [event_type |-> "sample", metric |-> "memory", value |-> 90, numeric |-> TRUE]
EvBoth      == [event_type |-> "migration_failed", metric |-> "memory", value |-> 90, numeric |-> TRUE]
EvQuiet     == [event_type |-> "sample", metric |-> "memory", value |-> 50, numeric |-> TRUE]
EvMalformed == [event_type |-> "migration_failed", metric |-> "memory", value |-> 0, numeric |-> FALSE]

Events == {EvFailure, EvMemory, EvBoth, EvQuiet, EvMalformed}

\* event.get('event_type') == 'migration_failed'
migration_failure_condition(event) ==
    IF event.event_type = "migration_failed" THEN "true" ELSE "false"

\* event.get('metric') == 'memory' and float(event.get('value', 0)) > 85;
\* float() raises ValueError on a value that is no number
high_memory_condition(event) ==
    IF event.metric # "memory" THEN "false"
    ELSE IF ~event.numeric THEN "raise"
    ELSE IF event.value > 85 THEN "true" ELSE "false"

Condition(rule, event) ==
    IF rule.condition = "migration_failure_condition"
    THEN migration_failure_condition(event)
    ELSE high_memory_condition(event)

migration_error_rule ==
    [name |-> "migration_failure", rule_type |-> "EVENT",
     condition |-> "migration_failure_condition",
     notification_level |-> "CRITICAL", recipients |-> <<"admin@example.com">>,
     enabled |-> TRUE]

high_memory_rule ==
    [name |-> "high_memory_usage", rule_type |-> "THRESHOLD",
     condition |-> "high_memory_condition",
     notification_level |-> "WARNING", recipients |-> <<"devops@example.com">>,
     enabled |-> TRUE]

MatchesUnlessFalse(rule, event) == Condition(rule, event) # "false"

\* AlertRule.matches: a condition that raises is logged and counts as no match
Matches(rule, event) == Condition(rule, event) = "true"

GetEnabledRulesAll(rs) == rs

\* AlertRuleManager.get_enabled_rules
GetEnabledRules(rs) == LET on(r) == r.enabled IN SelectSeq(rs, on)

EvaluateEventNoTest(rs, event) == GetEnabledRules(rs)

\* AlertRuleManager.evaluate_event
EvaluateEvent(rs, event) ==
    LET hit(r) == Matches(r, event) IN SelectSeq(GetEnabledRules(rs), hit)

----------------------------------------------------------------------------
(* Templates.  A text is a sequence of atoms: the opening braces "{{", the closing
   braces "}}", a name, or a run of other characters (white space runs written as
   one blank).  The placeholder of a variable is three atoms. *)

\* placeholder = f"{{{{{var}}}}}"
PH(var) == <<"{{", var, "}}">>

\* str(value) of a context value: a text or an integer
Str(value) == IF value.kind = "int" THEN <<ToString(value.v)>> ELSE value.v

OccursAt(s, i, old) ==
    /\ i + Len(old) - 1 <= Len(s)
    /\ SubSeq(s, i, i + Len(old) - 1) = old

\* str.replace(old, new): the occurrences of old, found from left to right without
\* overlap, are replaced
RECURSIVE ReplaceFrom(_, _, _, _)
ReplaceFrom(s, i, old, new) ==
    IF i > Len(s) THEN <<>>
    ELSE IF OccursAt(s, i, old) THEN new \o ReplaceFrom(s, i + Len(old), old, new)
    ELSE <<s[i]>> \o ReplaceFrom(s, i + 1, old, new)

Replace(s, old, new) == ReplaceFrom(s, 1, old, new)

\* the loop of NotificationTemplate.render over context.items(), on one text
RECURSIVE RenderText(_, _)
RenderText(s, context) ==
    IF context = <<>> THEN s
    ELSE RenderText(Replace(s, PH(Head(context).var), Str(Head(context).value)),
                    Tail(context))

\* NotificationTemplate.render
Render(template, context) ==
    [subject |-> RenderText(template.subject, context),
     body |-> RenderText(template.body, context)]

\* the templates _initialize_default_templates registers
migration_started_template ==
    [name |-> "migration_started",
     subject |-> <<"Migration Operation Started - ">> \o
                 PH("migration_id"),
     body |-> <<" <html> <body> <h2>Migration Operation Started</h2> <p><strong>Migration ID:</strong> ">> \o
              PH("migration_id") \o
              <<"</p> <p><strong>Start Time:</strong> ">> \o
              PH("start_time") \o
              <<"</p> <p><strong>Source:</strong> ">> \o
              PH("source") \o
              <<"</p> <p><strong>Destination:</strong> ">> \o
              PH("destination") \o
              <<"</p> <p>The migration operation has been initiated successfully.</p> </body> </html> ">>]

migration_completed_template ==
    [name |-> "migration_completed",
     subject |-> <<"Migration Operation Completed - ">> \o
                 PH("migration_id"),
     body |-> <<" <html> <body> <h2>Migration Operation Completed</h2> <p><strong>Migration ID:</strong> ">> \o
              PH("migration_id") \o
              <<"</p> <p><strong>Status:</strong> ">> \o
              PH("status") \o
              <<"</p> <p><strong>Duration:</strong> ">> \o
              PH("duration") \o
              <<"</p> <p><strong>Items Migrated:</strong> ">> \o
              PH("items_count") \o
              <<"</p> <p><strong>Completion Time:</strong> ">> \o
              PH("completion_time") \o
              <<"</p> <p>">> \o
              PH("additional_info") \o
              <<"</p> </body> </html> ">>]

migration_error_template ==
    [name |-> "migration_error",
     subject |-> <<"Migration Operation Failed - ">> \o
                 PH("migration_id"),
     body |-> <<" <html> <body> <h2>Migration Operation Failed</h2> <p><strong>Migration ID:</strong> ">> \o
              PH("migration_id") \o
              <<"</p> <p><strong>Error:</strong> ">> \o
              PH("error_message") \o
              <<"</p> <p><strong>Failed Items:</strong> ">> \o
              PH("failed_count") \o
              <<"</p> <p><strong>Failure Time:</strong> ">> \o
              PH("failure_time") \o
              <<"</p> <p><strong>Recommended Action:</strong> ">> \o
              PH("action") \o
              <<"</p> <p>Please review the error details and take appropriate action.</p> </body> </html> ">>]

performance_alert_template ==
    [name |-> "performance_alert",
     subject |-> <<"Performance Alert - ">> \o
                 PH("alert_type"),
     body |-> <<" <html> <body> <h2>Performance Alert</h2> <p><strong>Alert Type:</strong> ">> \o
              PH("alert_type") \o
              <<"</p> <p><strong>Metric:</strong> ">> \o
              PH("metric") \o
              <<"</p> <p><strong>Current Value:</strong> ">> \o
              PH("current_value") \o
              <<"</p> <p><strong>Threshold:</strong> ">> \o
              PH("threshold") \o
              <<"</p> <p><strong>Timestamp:</strong> ">> \o
              PH("timestamp") \o
              <<"</p> <p>Performance monitoring has detected an issue that requires attention.</p> </body> </html> ">>]

resource_warning_template ==
    [name |-> "resource_warning",
     subject |-> <<"Resource Warning - ">> \o
                 PH("resource_type"),
     body |-> <<" <html> <body> <h2>Resource Warning</h2> <p><strong>Resource Type:</strong> ">> \o
              PH("resource_type") \o
              <<"</p> <p><strong>Usage Level:</strong> ">> \o
              PH("usage_level") \o
              <<"%</p> <p><strong>Warning Threshold:</strong> ">> \o
              PH("threshold") \o
              <<"%</p> <p><strong>Timestamp:</strong> ">> \o
              PH("timestamp") \o
              <<"</p> <p>Resource usage has exceeded acceptable limits.</p> </body> </html> ">>]

DefaultTemplates ==
    <<migration_started_template, migration_completed_template, migration_error_template,
      performance_alert_template, resource_warning_template>>

\* a template the caller has registered with register_template
greeting_template ==
    [name |-> "greeting",
     subject |-> <<"Status of ">> \o PH("name"),
     body |-> <<"Hi ">> \o PH("name") \o <<", status ">> \o PH("status")]

\* NotificationTemplateManager.templates
Templates == DefaultTemplates \o <<greeting_template>>

GetTemplateOrFirst(name) ==
    IF \E i \in 1..Len(Templates) : Templates[i].name = name
    THEN Some(Templates[CHOOSE i \in 1..Len(Templates) : Templates[i].name = name])
    ELSE Some(Templates[1])

\* NotificationTemplateManager.get_template: self.templates.get(name)
GetTemplate(name) ==
    IF \E i \in 1..Len(Templates) : Templates[i].name = name
    THEN Some(Templates[CHOOSE i \in 1..Len(Templates) : Templates[i].name = name])
    ELSE None

----------------------------------------------------------------------------
(* Notification objects and the store *)

\* Notification(...) as send_notification builds it: the dataclass defaults
NewNotification(id, level, recipients, subject, body, metadata, t) ==
    [id |-> id, level |-> level, subject |-> subject, body |-> body,
     recipients |-> recipients, status |-> "PENDING", created_at |-> t,
     sent_at |-> None, retry_count |-> 0, max_retries |-> DefaultMaxRetries,
     next_retry |-> None, error_message |-> None, metadata |-> metadata]

SaveNothing(st, n) == st

SaveInsertOrIgnore(st, n) == IF n.id \in DOMAIN st THEN st ELSE (n.id :> n) @@ st

\* INSERT OR REPLACE INTO notifications: upsert keyed by id
SaveNotification(st, n) == (n.id :> n) @@ st

\* SELECT ... WHERE status IN (PENDING, RETRYING)
PendingIds(st) == {i \in DOMAIN st : st[i].status \in {"PENDING", "RETRYING"}}

GetPendingUnordered(st) ==
    LET ids == PendingIds(st)
        k == Cardinality(ids)
        orders == {s \in [1..k -> ids] : \A i, j \in 1..k : i # j => s[i] # s[j]}
    IN {[i \in 1..k |-> st[s[i]]] : s \in orders}

\* ... ORDER BY created_at ASC: every order of the selected rows that is ascending
\* in created_at (SQL leaves the order of rows with equal created_at open)
GetPendingNotifications(st) ==
    LET ids == PendingIds(st)
        k == Cardinality(ids)
        orders == {s \in [1..k -> ids] :
                      /\ \A i, j \in 1..k : i # j => s[i] # s[j]
                      /\ \A i, j \in 1..k : i < j => st[s[i]].created_at <= st[s[j]].created_at}
    IN {[i \in 1..k |-> st[s[i]]] : s \in orders}

CleanupTargetsAnyStatus(st, days, t) ==
    {i \in DOMAIN st : st[i].created_at < t - days * MinutesPerDay}

\* UPDATE notifications SET status = ARCHIVED WHERE created_at < cutoff AND status = SENT
CleanupTargets(st, days, t) ==
    {i \in DOMAIN st : st[i].created_at < t - days * MinutesPerDay /\ st[i].status = "SENT"}

CleanupOldNotifications(st, days, t) ==
    [i \in DOMAIN st |->
        IF i \in CleanupTargets(st, days, t) THEN [st[i] EXCEPT !.status = "ARCHIVED"] ELSE st[i]]

LogAuditEventRaising(au, entry, fails) ==
    IF fails THEN [audit |-> au, returned |-> "raise"]
    ELSE [audit |-> Append(au, entry), returned |-> "True"]

\* log_audit_event: INSERT INTO notification_audit; an exception inside is caught and
\* False is returned
LogAuditEvent(au, entry, fails) ==
    IF fails THEN [audit |-> au, returned |-> "False"]
    ELSE [audit |-> Append(au, entry), returned |-> "True"]

AuditEntry(id, event, t) == [notification_id |-> id, event |-> event, timestamp |-> t]

----------------------------------------------------------------------------
(* One delivery attempt: _send_notification and the branches of _process_notification *)

\* what SMTPEmailSender.send_email can return
SendEmailResults == {[ok |-> TRUE, error |-> None], [ok |-> FALSE, error |-> Some("SMTP error")]}

SendResultsAnySender(configured) == SendEmailResults

\* _send_notification: without an email sender the attempt fails and sets no message
SendResults(configured) ==
    IF configured THEN SendEmailResults ELSE {[ok |-> FALSE, error |-> None]}

SendEmailRaisesEscapes(text) == [ok |-> FALSE, error |-> None, escaped |-> TRUE]

\* _send_notification when email_sender.send_email raises: except Exception as e:
\* notification.error_message = str(e); return False
SendEmailRaises(text) == [ok |-> FALSE, error |-> Some(text), escaped |-> FALSE]

SetErrorMessage(n, res, configured) ==
    IF configured /\ ~res.ok THEN [n EXCEPT !.error_message = res.error] ELSE n

CanRetryOffByOne(n) == n.retry_count <= n.max_retries

CanRetryTooFew(n) == n.retry_count + 1 < n.max_retries

\* if notification.retry_count < notification.max_retries
CanRetry(n) == n.retry_count < n.max_retries

BackoffUncapped(retry_count) == Pow2(retry_count)

\* backoff_minutes = min(2 ** notification.retry_count, 60)
BackoffMinutes(retry_count) == Min(Pow2(retry_count), BackoffCapMinutes)

OnSuccessStatusOnly(n, t) == [n EXCEPT !.status = "SENT"]

\* notification.status = SENT; notification.sent_at = datetime.utcnow()
OnSuccess(n, t) == [n EXCEPT !.status = "SENT", !.sent_at = Some(t)]

OnFailure(n, t) ==
    IF CanRetry(n)
    THEN [n EXCEPT !.retry_count = n.retry_count + 1,
                   !.status = "RETRYING",
                   !.next_retry = Some(t + BackoffMinutes(n.retry_count + 1))]
    ELSE [n EXCEPT !.status = "FAILED"]

\* the Notification object after the attempt, before it is saved
Attempt(n, res, configured, t) ==
    LET m == SetErrorMessage(n, res, configured)
    IN IF res.ok THEN OnSuccess(m, t) ELSE OnFailure(m, t)

StatsAfterFailureCountsTwice(st, n, res) ==
    IF res.ok THEN [st EXCEPT !.sent = @ + 1]
    ELSE IF CanRetry(n) THEN [st EXCEPT !.retried = @ + 1, !.failed = @ + 1]
    ELSE [st EXCEPT !.failed = @ + 1]

StatsAfter(st, n, res) ==
    IF res.ok THEN [st EXCEPT !.sent = @ + 1]
    ELSE IF CanRetry(n) THEN [st EXCEPT !.retried = @ + 1]
    ELSE [st EXCEPT !.failed = @ + 1]

----------------------------------------------------------------------------
(* The passage of one minute *)

Elapse(ts) == Max(ts - 1, 0 - PastCap)
ElapseOpt(o) == IF o = None THEN None ELSE Some(Elapse(o[1]))

Aged(n) == [n EXCEPT !.created_at = Elapse(@), !.sent_at = ElapseOpt(@),
                     !.next_retry = ElapseOpt(@)]

----------------------------------------------------------------------------
(* Initial state: NotificationSystem(db_path, email_config) constructed on an empty
   database, the two alert rules registered, the worker not started *)

InitCommon ==
    /\ store = <<>>
    /\ audit = <<>>
    /\ queue = <<>>
    /\ running = FALSE
    /\ stats = [sent |-> 0, failed |-> 0, retried |-> 0, processed |-> 0]
    /\ wpc = [t \in Threads |-> "none"]
    /\ wcur = [t \in Threads |-> None]
    /\ wgot = [t \in Threads |-> None]
    /\ wfrom = [t \in Threads |-> "queue"]
    /\ wpending = [t \in Threads |-> <<>>]
    /\ rules = <<migration_error_rule, high_memory_rule>>
    /\ fpc = "idle"
    /\ fop = [op |-> "none", arg |-> None, base |-> 1]
    /\ freqs = <<>>
    /\ fids = <<>>
    /\ fnew = None
    /\ fret = [op |-> "none", arg |-> None, value |-> <<>>]
    /\ nextId = 1
    /\ seen = [i \in Ids |-> [ok |-> FALSE, fail |-> FALSE, last |-> "none"]]

Init ==
    /\ InitCommon
    /\ emailSender = TRUE
    /\ dbFaults = 0

----------------------------------------------------------------------------
(* The caller thread: NotificationSystem *)

SendLevels == {"INFO"}
SendRecipients == {<<"ops@example.com">>}
CleanupDays == {0, 1, 30}

Request(level, recipients, subject, body, metadata) ==
    [level |-> level, recipients |-> recipients, subject |-> subject,
     body |-> body, metadata |-> metadata]

\* the send_notification call handle_event makes for a matched rule
RuleRequest(rule, event) ==
    Request(rule.notification_level, rule.recipients,
            <<"Alert: ", rule.name>>,
            <<"Alert rule '", rule.name, "' triggered:", event>>,
            [rule_name |-> rule.name, rule_type |-> rule.rule_type])

RuleRequests(matched, event) == [i \in 1..Len(matched) |-> RuleRequest(matched[i], event)]

\* NotificationSystem.send_notification is entered
SendNotification(level, recipients) ==
    /\ fpc = "idle"
    /\ nextId <= MaxNotifs
    /\ fop' = [op |-> "send_notification", arg |-> None, base |-> nextId]
    /\ freqs' = <<Request(level, recipients, <<"Notice">>, <<"text">>, <<>>)>>
    /\ fids' = <<>>
    /\ fpc' = "save"
    /\ UNCHANGED <<storeVars, workerVars, rules, fnew, fret, nextId, envVars, seen>>

\* NotificationSystem.handle_event: evaluate the rules, then one send_notification per match
HandleEvent(event) ==
    /\ fpc = "idle"
    /\ LET matched == EvaluateEvent(rules, event) IN
        /\ nextId + Len(matched) - 1 <= MaxNotifs
        /\ fop' = [op |-> "handle_event", arg |-> Some(event), base |-> nextId]
        /\ IF matched = <<>>
           THEN /\ fret' = [op |-> "handle_event", arg |-> Some(event), value |-> <<>>]
                /\ UNCHANGED <<fpc, freqs, fids>>
           ELSE /\ freqs' = RuleRequests(matched, event)
                /\ fids' = <<>>
                /\ fpc' = "save"
                /\ UNCHANGED fret
    /\ UNCHANGED <<storeVars, workerVars, rules, fnew, nextId, envVars, seen>>

\* level or NotificationLevel.INFO
LevelOrInfo(level) == IF level = None THEN "INFO" ELSE level[1]

\* NotificationSystem.send_from_template: look the template up; None when it is not
\* registered, else render it and call send_notification
SendFromTemplate(name, recipients, context, level) ==
    /\ fpc = "idle"
    /\ GetTemplate(name) # None => nextId <= MaxNotifs
    /\ fop' = [op |-> "send_from_template",
               arg |-> Some([name |-> name, context |-> context]), base |-> nextId]
    /\ IF GetTemplate(name) = None
       THEN /\ fret' = [op |-> "send_from_template", arg |-> fop'.arg, value |-> None]
            /\ UNCHANGED <<fpc, freqs, fids>>
       ELSE /\ LET r == Render(GetTemplate(name)[1], context)
               IN freqs' = <<Request(LevelOrInfo(level), recipients, r.subject, r.body, <<>>)>>
            /\ fids' = <<>>
            /\ fpc' = "save"
            /\ UNCHANGED fret
    /\ UNCHANGED <<storeVars, workerVars, rules, fnew, nextId, envVars, seen>>

\* send_notification: build the Notification and db.save_notification(notification)
FacadeSave ==
    /\ fpc = "save"
    /\ LET r == Head(freqs)
           n == NewNotification(nextId, r.level, r.recipients, r.subject, r.body,
                                r.metadata, Now)
       IN /\ store' = SaveNotification(store, n)
          /\ fnew' = Some(n)
    /\ nextId' = nextId + 1
    /\ fpc' = "enqueue"
    /\ UNCHANGED <<audit, workerVars, rules, fop, freqs, fids, fret, envVars, seen>>

\* send_notification when db.save_notification raises inside and returns False: the
\* result is not looked at, the Notification goes on to the queue
FacadeSaveFails ==
    /\ fpc = "save"
    /\ dbFaults > 0
    /\ dbFaults' = dbFaults - 1
    /\ LET r == Head(freqs)
       IN fnew' = Some(NewNotification(nextId, r.level, r.recipients, r.subject, r.body,
                                       r.metadata, Now))
    /\ nextId' = nextId + 1
    /\ fpc' = "enqueue"
    /\ UNCHANGED <<storeVars, workerVars, rules, fop, freqs, fids, fret, emailSender, seen>>

\* send_notification: worker.add_notification(notification); return notification.id
FacadeEnqueue ==
    /\ fpc = "enqueue"
    /\ queue' = Append(queue, fnew[1])
    /\ fids' = Append(fids, fnew[1].id)
    /\ freqs' = Tail(freqs)
    /\ fnew' = None
    /\ IF Tail(freqs) = <<>>
       THEN /\ fpc' = "idle"
            /\ fret' = [op |-> fop.op, arg |-> fop.arg, value |-> fids']
       ELSE /\ fpc' = "save"
            /\ UNCHANGED fret
    /\ UNCHANGED <<storeVars, running, stats, loopVars, rules, fop, nextId, envVars, seen>>

RuleNames == {"migration_failure", "high_memory_usage", "unknown_rule"}

\* AlertRuleManager.get_rule
HasRule(rs, name) == \E i \in 1..Len(rs) : rs[i].name = name

SetEnabled(rs, name, flag) ==
    [i \in 1..Len(rs) |-> IF rs[i].name = name THEN [rs[i] EXCEPT !.enabled = flag] ELSE rs[i]]

PutRuleAppend(rs, rule) == Append(rs, rule)

\* self.rules[rule.name] = rule: a dict keeps the position of a key it already holds
PutRule(rs, rule) ==
    IF HasRule(rs, rule.name)
    THEN [i \in 1..Len(rs) |-> IF rs[i].name = rule.name THEN rule ELSE rs[i]]
    ELSE Append(rs, rule)

\* NotificationSystem.register_alert_rule -> AlertRuleManager.register_rule
RegisterRule(rule) ==
    /\ fpc = "idle"
    /\ rules' = PutRule(rules, rule)
    /\ fret' = [op |-> "register_alert_rule", arg |-> Some(rule.name), value |-> <<TRUE>>]
    /\ UNCHANGED <<storeVars, workerVars, fpc, fop, freqs, fids, fnew, nextId, envVars, seen>>

\* AlertRuleManager.enable_rule
EnableRule(name) ==
    /\ fpc = "idle"
    /\ rules' = SetEnabled(rules, name, TRUE)
    /\ fret' = [op |-> "enable_rule", arg |-> Some(name), value |-> <<HasRule(rules, name)>>]
    /\ UNCHANGED <<storeVars, workerVars, fpc, fop, freqs, fids, fnew, nextId, envVars, seen>>

\* AlertRuleManager.disable_rule
DisableRule(name) ==
    /\ fpc = "idle"
    /\ rules' = SetEnabled(rules, name, FALSE)
    /\ fret' = [op |-> "disable_rule", arg |-> Some(name), value |-> <<HasRule(rules, name)>>]
    /\ UNCHANGED <<storeVars, workerVars, fpc, fop, freqs, fids, fnew, nextId, envVars, seen>>

\* NotificationSystem.cleanup_old_notifications(days)
Cleanup(days) ==
    /\ fpc = "idle"
    /\ store' = CleanupOldNotifications(store, days, Now)
    /\ fret' = [op |-> "cleanup_old_notifications", arg |-> Some(days),
                value |-> <<Cardinality(CleanupTargets(store, days, Now))>>]
    /\ UNCHANGED <<audit, workerVars, rules, fpc, fop, freqs, fids, fnew, nextId, envVars, seen>>

\* NotificationSystem.start -> NotificationWorker.start
Start ==
    /\ fpc = "idle"
    /\ ~running
    /\ \E t \in Threads :
          /\ wpc[t] \in {"none", "exited"}
          /\ \A u \in Threads : u < t => wpc[u] \notin {"none", "exited"}
          /\ wpc' = [wpc EXCEPT ![t] = "top"]
    /\ running' = TRUE
    /\ fret' = [op |-> "start", arg |-> None, value |-> <<>>]
    /\ UNCHANGED <<storeVars, queue, stats, wcur, wgot, wfrom, wpending, rules,
                   fpc, fop, freqs, fids, fnew, nextId, envVars, seen>>

\* start() while the flag is set: "Worker is already running", nothing happens
StartAgain ==
    /\ fpc = "idle"
    /\ running
    /\ fret' = [op |-> "start", arg |-> None, value |-> <<>>]
    /\ UNCHANGED <<storeVars, workerVars, rules, fpc, fop, freqs, fids, fnew, nextId,
                   envVars, seen>>

\* NotificationSystem.stop -> NotificationWorker.stop: the flag is cleared; the join
\* returns when the thread has ended or after its timeout
Stop ==
    /\ fpc = "idle"
    /\ running
    /\ running' = FALSE
    /\ fret' = [op |-> "stop", arg |-> None, value |-> <<>>]
    /\ UNCHANGED <<storeVars, queue, stats, loopVars, rules,
                   fpc, fop, freqs, fids, fnew, nextId, envVars, seen>>

----------------------------------------------------------------------------
(* The worker thread: NotificationWorker._worker_loop *)

\* while self.running
WorkerTop(t) ==
    /\ wpc[t] = "top"
    /\ wpc' = [wpc EXCEPT ![t] = IF running THEN "get" ELSE "exited"]
    /\ UNCHANGED <<storeVars, queue, running, stats, wcur, wgot, wfrom, wpending,
                   rules, facadeVars, envVars, seen>>

\* notification = self.queue.get(timeout=1): one item, or queue.Empty
WorkerGet(t) ==
    /\ wpc[t] = "get"
    /\ IF queue # <<>>
       THEN /\ wcur' = [wcur EXCEPT ![t] = Some(Head(queue))]
            /\ wgot' = [wgot EXCEPT ![t] = Some(Head(queue))]
            /\ queue' = Tail(queue)
            /\ wfrom' = [wfrom EXCEPT ![t] = "queue"]
            /\ wpc' = [wpc EXCEPT ![t] = "process"]
       ELSE /\ wpc' = [wpc EXCEPT ![t] = "scan"]
            /\ UNCHANGED <<wcur, wgot, queue, wfrom>>
    /\ UNCHANGED <<storeVars, running, stats, wpending, rules, facadeVars, envVars, seen>>

AlreadySentNever(n) == FALSE

\* if notification.status == NotificationStatus.SENT: return
AlreadySent(n) == n.status = "SENT"

\* where the loop goes on after _process_notification returns
AfterProcess(t) == IF wfrom[t] = "queue" THEN "scan" ELSE "iter"

\* _process_notification up to the save: the SENT guard, the transport call, the
\* update of the object, the counters and the SENT audit entry
WorkerProcess(t) ==
    /\ wpc[t] = "process"
    /\ LET n == wcur[t][1] IN
        IF AlreadySent(n)
        THEN /\ wpc' = [wpc EXCEPT ![t] = AfterProcess(t)]
             /\ wcur' = [wcur EXCEPT ![t] = None]
             /\ wgot' = [wgot EXCEPT ![t] = None]
             /\ UNCHANGED <<stats, audit, seen>>
        ELSE \E res \in SendResults(emailSender) :
             /\ wcur' = [wcur EXCEPT ![t] = Some(Attempt(n, res, emailSender, Now))]
             /\ stats' = StatsAfter(stats, n, res)
             /\ audit' = IF res.ok THEN Append(audit, AuditEntry(n.id, "SENT", Now))
                                    ELSE audit
             /\ seen' = [seen EXCEPT ![n.id] =
                            IF res.ok THEN [@ EXCEPT !.ok = TRUE, !.last = "ok"]
                                      ELSE [@ EXCEPT !.fail = TRUE, !.last = "fail"]]
             /\ wpc' = [wpc EXCEPT ![t] = "save"]
             /\ UNCHANGED wgot
    /\ UNCHANGED <<store, queue, running, wfrom, wpending, rules, facadeVars, envVars>>

\* _process_notification up to the save when the transport call succeeds and the
\* INSERT of log_audit_event raises inside: the result of log_audit_event is not
\* looked at; an exception leaving it would end _process_notification before the save
WorkerProcessAuditFails(t) ==
    /\ wpc[t] = "process"
    /\ dbFaults > 0
    /\ dbFaults' = dbFaults - 1
    /\ LET n == wcur[t][1]
           res == [ok |-> TRUE, error |-> None]
           logged == LogAuditEvent(audit, AuditEntry(n.id, "SENT", Now), TRUE)
       IN /\ ~AlreadySent(n)
          /\ res \in SendResults(emailSender)
          /\ stats' = StatsAfter(stats, n, res)
          /\ audit' = logged.audit
          /\ seen' = [seen EXCEPT ![n.id] = [@ EXCEPT !.ok = TRUE, !.last = "ok"]]
          /\ IF logged.returned = "raise"
             THEN /\ wpc' = [wpc EXCEPT ![t] = AfterProcess(t)]
                  /\ wcur' = [wcur EXCEPT ![t] = None]
                  /\ wgot' = [wgot EXCEPT ![t] = None]
             ELSE /\ wpc' = [wpc EXCEPT ![t] = "save"]
                  /\ wcur' = [wcur EXCEPT ![t] = Some(Attempt(n, res, emailSender, Now))]
                  /\ UNCHANGED wgot
    /\ UNCHANGED <<store, queue, running, wfrom, wpending, rules, facadeVars, emailSender>>

\* _process_notification up to the save when the sender's send_email raises: the
\* exception is caught in _send_notification and the attempt goes on as a failed one;
\* an exception leaving _send_notification would end _process_notification at its
\* own except clause, before the save
WorkerProcessRaises(t) ==
    /\ wpc[t] = "process"
    /\ emailSender
    /\ LET n == wcur[t][1]
           res == SendEmailRaises("connection refused")
       IN /\ ~AlreadySent(n)
          /\ seen' = [seen EXCEPT ![n.id] = [@ EXCEPT !.fail = TRUE, !.last = "fail"]]
          /\ IF res.escaped
             THEN /\ wpc' = [wpc EXCEPT ![t] = AfterProcess(t)]
                  /\ wcur' = [wcur EXCEPT ![t] = None]
                  /\ wgot' = [wgot EXCEPT ![t] = None]
                  /\ UNCHANGED stats
             ELSE /\ wpc' = [wpc EXCEPT ![t] = "save"]
                  /\ wcur' = [wcur EXCEPT ![t] =
                                 Some(Attempt(n, [ok |-> res.ok, error |-> res.error],
                                              emailSender, Now))]
                  /\ stats' = StatsAfter(stats, n, res)
                  /\ UNCHANGED wgot
    /\ UNCHANGED <<storeVars, queue, running, wfrom, wpending, rules, facadeVars, envVars>>

\* self.db.save_notification(notification); self.stats['processed'] += 1
WorkerSave(t) ==
    /\ wpc[t] = "save"
    /\ store' = SaveNotification(store, wcur[t][1])
    /\ stats' = [stats EXCEPT !.processed = @ + 1]
    /\ wpc' = [wpc EXCEPT ![t] = AfterProcess(t)]
    /\ wcur' = [wcur EXCEPT ![t] = None]
    /\ wgot' = [wgot EXCEPT ![t] = None]
    /\ UNCHANGED <<audit, queue, running, wfrom, wpending, rules, facadeVars, envVars, seen>>

\* save_notification raises inside and returns False: the table keeps its rows, the
\* worker goes on as after a save
WorkerSaveFails(t) ==
    /\ wpc[t] = "save"
    /\ dbFaults > 0
    /\ dbFaults' = dbFaults - 1
    /\ stats' = [stats EXCEPT !.processed = @ + 1]
    /\ wpc' = [wpc EXCEPT ![t] = AfterProcess(t)]
    /\ wcur' = [wcur EXCEPT ![t] = None]
    /\ wgot' = [wgot EXCEPT ![t] = None]
    /\ UNCHANGED <<storeVars, queue, running, wfrom, wpending, rules, facadeVars, emailSender, seen>>

\* get_pending_notifications raises inside and returns []
WorkerScanFails(t) ==
    /\ wpc[t] = "scan"
    /\ dbFaults > 0
    /\ dbFaults' = dbFaults - 1
    /\ wpending' = [wpending EXCEPT ![t] = <<>>]
    /\ wpc' = [wpc EXCEPT ![t] = "iter"]
    /\ UNCHANGED <<storeVars, queue, running, stats, wcur, wgot, wfrom, rules,
                   facadeVars, emailSender, seen>>

\* pending = self.db.get_pending_notifications()
WorkerScan(t) ==
    /\ wpc[t] = "scan"
    /\ \E p \in GetPendingNotifications(store) : wpending' = [wpending EXCEPT ![t] = p]
    /\ wpc' = [wpc EXCEPT ![t] = "iter"]
    /\ UNCHANGED <<storeVars, queue, running, stats, wcur, wgot, wfrom, rules,
                   facadeVars, envVars, seen>>

RetryAlwaysDue(n, t) == FALSE

RetryNeverDue(n, t) == n.next_retry # None

\* if notification.next_retry and notification.next_retry > datetime.utcnow(): continue
RetryNotDue(n, t) == n.next_retry # None /\ n.next_retry[1] > t

\* for notification in pending: ...; after the list, time.sleep(self.process_interval)
WorkerIter(t) ==
    /\ wpc[t] = "iter"
    /\ IF wpending[t] = <<>>
       THEN /\ wpc' = [wpc EXCEPT ![t] = "top"]
            /\ UNCHANGED <<wcur, wgot, wfrom, wpending>>
       ELSE /\ wpending' = [wpending EXCEPT ![t] = Tail(@)]
            /\ IF RetryNotDue(Head(wpending[t]), Now)
               THEN UNCHANGED <<wpc, wcur, wgot, wfrom>>
               ELSE /\ wcur' = [wcur EXCEPT ![t] = Some(Head(wpending[t]))]
                    /\ wgot' = [wgot EXCEPT ![t] = Some(Head(wpending[t]))]
                    /\ wfrom' = [wfrom EXCEPT ![t] = "scan"]
                    /\ wpc' = [wpc EXCEPT ![t] = "process"]
    /\ UNCHANGED <<storeVars, queue, running, stats, rules, facadeVars, envVars, seen>>

\* a minute passes
Tick ==
    /\ store' = [i \in DOMAIN store |-> Aged(store[i])]
    /\ audit' = [i \in 1..Len(audit) |-> [audit[i] EXCEPT !.timestamp = Elapse(@)]]
    /\ queue' = [i \in 1..Len(queue) |-> Aged(queue[i])]
    /\ wcur' = [t \in Threads |-> IF wcur[t] = None THEN None ELSE Some(Aged(wcur[t][1]))]
    /\ wgot' = [t \in Threads |-> IF wgot[t] = None THEN None ELSE Some(Aged(wgot[t][1]))]
    /\ wpending' = [t \in Threads |-> [i \in 1..Len(wpending[t]) |-> Aged(wpending[t][i])]]
    /\ fnew' = IF fnew = None THEN None ELSE Some(Aged(fnew[1]))
    /\ UNCHANGED <<running, stats, wpc, wfrom, rules, fpc, fop, freqs, fids, fret, nextId,
                   envVars, seen>>

----------------------------------------------------------------------------
(* Delivery: the caller sends notifications and cleans up (cutoff: the current
   instant) while the worker, once started, runs its loop and time passes *)

Next ==
    \/ \E level \in SendLevels, recipients \in SendRecipients : SendNotification(level, recipients)
    \/ FacadeSave
    \/ FacadeEnqueue
    \/ Cleanup(0)
    \/ Start
    \/ \E t \in Threads : WorkerTop(t)
    \/ \E t \in Threads : WorkerGet(t)
    \/ \E t \in Threads : WorkerProcess(t)
    \/ \E t \in Threads : WorkerSave(t)
    \/ \E t \in Threads : WorkerScan(t)
    \/ \E t \in Threads : WorkerIter(t)
    \/ Tick

Spec == Init /\ [][Next]_vars

----------------------------------------------------------------------------
(* Alerting: the caller enables and disables rules and hands events to handle_event
   while the worker, once started, runs its loop *)

NextEvents ==
    \/ \E event \in Events : HandleEvent(event)
    \/ FacadeSave
    \/ FacadeEnqueue
    \/ \E name \in RuleNames : EnableRule(name)
    \/ \E name \in RuleNames : DisableRule(name)
    \/ Start
    \/ \E t \in Threads : WorkerTop(t)
    \/ \E t \in Threads : WorkerGet(t)
    \/ \E t \in Threads : WorkerProcess(t)
    \/ \E t \in Threads : WorkerSave(t)
    \/ \E t \in Threads : WorkerScan(t)
    \/ \E t \in Threads : WorkerIter(t)

SpecEvents == Init /\ [][NextEvents]_vars

----------------------------------------------------------------------------
(* Properties *)

\* every Notification object there is: the stored rows and the copies in memory
Rows == {store[i] : i \in DOMAIN store}

InMemory ==
    Range(queue)
    \cup UNION {Range(wpending[t]) : t \in Threads}
    \cup UNION {Range(wcur[t]) : t \in Threads}
    \cup Range(fnew)

AllNotifications == Rows \cup InMemory

SentAudits(id) ==
    {i \in 1..Len(audit) : audit[i].notification_id = id /\ audit[i].event = "SENT"}

\* C1: in every reachable state every notification, stored or held in memory by the
\* queue, the worker or the caller, has retry_count <= max_retries.
C1_RetryCountBounded == \A n \in AllNotifications : n.retry_count <= n.max_retries

\* a stored row that has used all its retries and failed once more
C1_Witness ==
    \E n \in Rows : n.status = "FAILED" /\ n.retry_count = n.max_retries

StatusStep(a, b) ==
    \/ a = b
    \/ a = "PENDING" /\ b \in {"SENT", "RETRYING"}
    \/ a = "RETRYING" /\ b \in {"SENT", "RETRYING", "FAILED"}
    \/ a = "SENT" /\ b = "ARCHIVED"

\* C3 as claimed: the stored status of a notification only changes along PENDING ->
\* {SENT, RETRYING}, RETRYING -> {SENT, RETRYING, FAILED}, SENT -> ARCHIVED.
C3_Claim ==
    [][\A i \in DOMAIN store : StatusStep(store[i].status, store'[i].status)]_vars

\* C4 as claimed: a notification none of whose transport calls failed is delivered
\* by exactly one transport call (one SENT audit entry), whatever the timing.
C4_Claim ==
    \A i \in DOMAIN store : ~seen[i].fail => Cardinality(SentAudits(i)) <= 1

BackoffClaimed(retry_count) ==
    IF retry_count = 1 THEN 2 ELSE IF retry_count = 2 THEN 4 ELSE 8

\* C5 as claimed: while every transport call for a notification fails, its stored
\* (status, retry_count) goes PENDING 0, RETRYING 1, RETRYING 2, RETRYING 3, FAILED,
\* no RETRYING row is written again with a later next_retry, and the failed attempts
\* set a backoff of 2, 4 and 8 minutes.
C5_Claim ==
    [][/\ \A i \in DOMAIN store :
            LET a == store[i]
                b == store'[i]
            IN ~seen'[i].ok =>
                 IF <<a.status, a.retry_count>> = <<b.status, b.retry_count>>
                 THEN a.next_retry # None => b.next_retry[1] <= a.next_retry[1]
                 ELSE \/ a.status = "PENDING" /\ b.status = "RETRYING" /\ b.retry_count = 1
                      \/ a.status = "RETRYING" /\ b.status = "RETRYING"
                            /\ b.retry_count = a.retry_count + 1
                      \/ a.status = "RETRYING" /\ b.status = "FAILED"
                            /\ a.retry_count = 3 /\ b.retry_count = 3
       /\ \A t \in Threads :
            (wpc[t] = "process" /\ wpc'[t] = "save" /\ wcur'[t][1].status = "RETRYING")
                => wcur'[t][1].next_retry = Some(Now + BackoffClaimed(wcur'[t][1].retry_count))
      ]_vars

\* C6 as claimed: once the store records a notification as SENT, no processing
\* attempt for it invokes the transport.
C6_Claim ==
    [][\A t \in Threads :
         (wpc[t] = "process" /\ wpc'[t] = "save" /\ wcur[t][1].id \in DOMAIN store)
             => store[wcur[t][1].id].status # "SENT"]_vars

\* C10 as claimed: for every stored notification, next_retry is set if and only if
\* its status is RETRYING.
C10_Claim ==
    \A n \in Rows : n.next_retry # None <=> n.status = "RETRYING"

----------------------------------------------------------------------------
(* handle_event *)

\* the enabled rules whose condition is true of the event, in registration order
MatchingRules(event) ==
    LET hit(r) == r.enabled /\ Condition(r, event) = "true" IN SelectSeq(rules, hit)

\* C7: when handle_event returns, it has created exactly one notification per enabled
\* rule that matches the event and none for any other rule, and it returns their ids
\* in rule order; each has the level and recipients of its rule, and each is PENDING
\* when it is created.
C7_OneNotificationPerMatch ==
    /\ (fpc = "idle" /\ fret.op = "handle_event") =>
          LET exp == MatchingRules(fret.arg[1])
              ids == fret.value
          IN /\ Len(ids) = Len(exp)
             /\ nextId = fop.base + Len(exp)
             /\ \A i, j \in 1..Len(ids) : i # j => ids[i] # ids[j]
             /\ \A i \in 1..Len(ids) :
                   /\ ids[i] \in DOMAIN store
                   /\ ids[i] >= fop.base
                   /\ store[ids[i]].level = exp[i].notification_level
                   /\ store[ids[i]].recipients = exp[i].recipients
                   /\ store[ids[i]].metadata.rule_name = exp[i].name
    /\ fnew # None =>
          fnew[1].status = "PENDING" /\ fnew[1].retry_count = 0

\* handle_event has returned two ids for an event that matches both rules
C7_Witness ==
    /\ fpc = "idle"
    /\ fret.op = "handle_event"
    /\ fret.arg = Some(EvBoth)
    /\ Len(fret.value) = 2
    /\ store[fret.value[1]].level = "CRITICAL"
    /\ store[fret.value[2]].level = "WARNING"

NoRuleMatches(event) ==
    \A i \in 1..Len(rules) : ~(rules[i].enabled /\ Condition(rules[i], event) = "true")

\* C8: a handle_event call with an event that no enabled rule matches returns an
\* empty list at once and leaves the notifications table, the audit table and the
\* queue as they were.
C8_NoMatchNoWrites ==
    [][\A event \in Events :
         (HandleEvent(event) /\ NoRuleMatches(event)) =>
             /\ fret' = [op |-> "handle_event", arg |-> Some(event), value |-> <<>>]
             /\ fpc' = "idle"
             /\ store' = store
             /\ audit' = audit
             /\ queue' = queue
             /\ nextId' = nextId]_vars

\* handle_event has returned an empty list while a notification is stored and queued
C8_Witness ==
    /\ fret.op = "handle_event"
    /\ fret.value = <<>>
    /\ DOMAIN store # {}
    /\ queue # <<>>

----------------------------------------------------------------------------
(* Cleanup on an existing database: NotificationSystem is constructed on a
   notifications.db that earlier runs have filled; the worker is not started and the
   caller runs cleanup_old_notifications *)

SampleAges == {0, 1, MinutesPerDay, MinutesPerDay + 1, 30 * MinutesPerDay, 30 * MinutesPerDay + 1}

Failure == [ok |-> FALSE, error |-> Some("SMTP error")]
Success == [ok |-> TRUE, error |-> None]

\* a row as a run of delivery attempts made at time t leaves it
RECURSIVE AfterAttempts(_, _, _)
AfterAttempts(n, results, t) ==
    IF results = <<>> THEN n
    ELSE AfterAttempts(Attempt(n, Head(results), TRUE, t), Tail(results), t)

SampleHistories ==
    {<<>>, <<Failure>>, <<Success>>, <<Failure, Success>>,
     <<Failure, Failure, Failure, Failure>>}

SampleRows(id) ==
    LET fresh(t) == NewNotification(id, "INFO", <<"ops@example.com">>, <<"Notice">>,
                                    <<"text">>, <<>>, t)
        worked == {AfterAttempts(fresh(0 - a), h, 0 - a) : a \in SampleAges, h \in SampleHistories}
    IN worked \cup {[n EXCEPT !.status = "ARCHIVED"] : n \in {m \in worked : m.status = "SENT"}}

InitCleanup ==
    /\ \E k \in 1..MaxNotifs :
          /\ store \in {st \in [1..k -> UNION {SampleRows(i) : i \in 1..k}] :
                            /\ \A i \in 1..k : st[i].id = i
                            /\ \A i, j \in 1..k : i < j => st[i].created_at <= st[j].created_at}
          /\ nextId = k + 1
    /\ audit = <<>>
    /\ queue = <<>>
    /\ running = FALSE
    /\ stats = [sent |-> 0, failed |-> 0, retried |-> 0, processed |-> 0]
    /\ wpc = [t \in Threads |-> "none"]
    /\ wcur = [t \in Threads |-> None]
    /\ wgot = [t \in Threads |-> None]
    /\ wfrom = [t \in Threads |-> "queue"]
    /\ wpending = [t \in Threads |-> <<>>]
    /\ rules = <<migration_error_rule, high_memory_rule>>
    /\ fpc = "idle"
    /\ fop = [op |-> "none", arg |-> None, base |-> nextId]
    /\ freqs = <<>>
    /\ fids = <<>>
    /\ fnew = None
    /\ fret = [op |-> "none", arg |-> None, value |-> <<>>]
    /\ seen = [i \in Ids |-> [ok |-> FALSE, fail |-> FALSE, last |-> "none"]]
    /\ emailSender = TRUE
    /\ dbFaults = 0

NextCleanup == \E days \in CleanupDays : Cleanup(days)

SpecCleanup == InitCleanup /\ [][NextCleanup]_vars

OlderThan(n, days) == n.created_at < Now - days * MinutesPerDay

----------------------------------------------------------------------------
(* sent_at and error_message *)

\* C11 as claimed: every stored notification has sent_at set if and only if its
\* status is SENT, also after cleanup has archived it.
C11_Claim ==
    \A n \in Rows : n.sent_at # None <=> n.status = "SENT"

\* C11: every stored notification has sent_at set if and only if its status is SENT
\* or ARCHIVED (cleanup changes the status of a SENT row and keeps its sent_at), and
\* every Notification object in memory has sent_at set if and only if it is SENT.
C11_SentAtIffSentOrArchived ==
    /\ \A n \in Rows : n.sent_at # None <=> n.status \in {"SENT", "ARCHIVED"}
    /\ \A n \in InMemory : n.sent_at # None <=> n.status = "SENT"

\* cleanup has archived a delivered notification, whose sent_at is still set
C11_Witness ==
    /\ fret.op = "cleanup_old_notifications"
    /\ fret.value = <<1>>
    /\ \E n \in Rows : n.status = "ARCHIVED" /\ n.sent_at # None

\* C12 as claimed: a notification that is SENT, stored or in memory, has an empty
\* error_message, also when earlier attempts for it failed.
C12_Claim ==
    \A n \in AllNotifications : n.status = "SENT" => n.error_message = None

----------------------------------------------------------------------------
(* The audit table *)

AuditsOf(id) == {i \in 1..Len(audit) : audit[i].notification_id = id}

BeingProcessed(id) == \E t \in Threads : wcur[t] # None /\ wcur[t][1].id = id

\* C13 as claimed: every change of a notification's stored status is accompanied by
\* an audit entry for its id; so once the worker is done with a notification whose
\* stored status is no longer PENDING, the audit table has an entry for it.
C13_Claim ==
    \A n \in Rows :
        (n.status # "PENDING" /\ ~BeingProcessed(n.id)) => AuditsOf(n.id) # {}

\* C14 as claimed: a failed attempt at retry_count = max_retries sets FAILED and
\* appends an audit entry FAILED_PERMANENT; so once the worker is done with a
\* notification stored as FAILED, the audit table has that entry for it.
C14_Claim ==
    \A n \in Rows :
        (n.status = "FAILED" /\ ~BeingProcessed(n.id)) =>
            \E i \in AuditsOf(n.id) : audit[i].event = "FAILED_PERMANENT"

----------------------------------------------------------------------------
(* Rule registration and evaluation: the caller registers the two rules in either
   order, enables and disables them and hands events to handle_event; the worker is
   not started *)

InitRules ==
    /\ store = <<>>
    /\ audit = <<>>
    /\ queue = <<>>
    /\ running = FALSE
    /\ stats = [sent |-> 0, failed |-> 0, retried |-> 0, processed |-> 0]
    /\ wpc = [t \in Threads |-> "none"]
    /\ wcur = [t \in Threads |-> None]
    /\ wgot = [t \in Threads |-> None]
    /\ wfrom = [t \in Threads |-> "queue"]
    /\ wpending = [t \in Threads |-> <<>>]
    /\ rules = <<>>
    /\ fpc = "idle"
    /\ fop = [op |-> "none", arg |-> None, base |-> 1]
    /\ freqs = <<>>
    /\ fids = <<>>
    /\ fnew = None
    /\ fret = [op |-> "none", arg |-> None, value |-> <<>>]
    /\ nextId = 1
    /\ seen = [i \in Ids |-> [ok |-> FALSE, fail |-> FALSE, last |-> "none"]]
    /\ emailSender = TRUE
    /\ dbFaults = 0

NextRules ==
    \/ \E rule \in {migration_error_rule, high_memory_rule} : RegisterRule(rule)
    \/ \E event \in Events : HandleEvent(event)
    \/ FacadeSave
    \/ FacadeEnqueue
    \/ \E name \in RuleNames : EnableRule(name)
    \/ \E name \in RuleNames : DisableRule(name)

SpecRules == InitRules /\ [][NextRules]_vars

RaisingRules(event) ==
    {i \in 1..Len(rules) : rules[i].enabled /\ Condition(rules[i], event) = "raise"}

\* C15: when the condition of an enabled rule raises on an event, handle_event
\* still completes: the raising rule counts as no match, and one notification is
\* requested for every other enabled rule whose condition is true, registered before
\* or after the raising rule.
C15_RaisingRuleIsNoMatch ==
    [][\A event \in Events :
         (HandleEvent(event) /\ RaisingRules(event) # {}) =>
             LET exp == MatchingRules(event) IN
             /\ \A i \in 1..Len(exp) : Condition(exp[i], event) # "raise"
             /\ IF exp = <<>>
                THEN /\ fpc' = "idle"
                     /\ fret' = [op |-> "handle_event", arg |-> Some(event), value |-> <<>>]
                ELSE /\ fpc' = "save"
                     /\ freqs' = RuleRequests(exp, event)
      ]_vars

\* handle_event has returned the one notification of the migration rule for an
\* event on which the memory rule, registered first and enabled, raises
C15_Witness ==
    /\ fpc = "idle"
    /\ fret.op = "handle_event"
    /\ fret.arg = Some(EvMalformed)
    /\ Len(rules) = 2
    /\ rules[1].name = "high_memory_usage"
    /\ rules[1].enabled /\ rules[2].enabled
    /\ Len(fret.value) = 1
    /\ store[fret.value[1]].level = "CRITICAL"

----------------------------------------------------------------------------
(* Templates: the caller sends notifications from templates, registered or not, with
   contexts that cover some, all or none of a template's variables; the worker is
   not started *)

TextValue(s) == [kind |-> "str", v |-> s]
IntValue(i) == [kind |-> "int", v |-> i]
Item(var, value) == [var |-> var, value |-> value]

\* contexts, as context.items() lists them
CtxEmpty == <<>>
CtxAlice == <<Item("name", TextValue(<<"Alice">>))>>
CtxFull == <<Item("name", TextValue(<<"Alice">>)), Item("status", TextValue(<<"ok">>))>>
CtxMigration == <<Item("migration_id", IntValue(42)), Item("status", TextValue(<<"done">>))>>
CtxNested == <<Item("name", TextValue(PH("status"))), Item("status", TextValue(<<"ok">>))>>
CtxNestedLast == <<Item("status", TextValue(<<"ok">>)), Item("name", TextValue(PH("status")))>>

Contexts == {CtxEmpty, CtxAlice, CtxFull, CtxMigration, CtxNested, CtxNestedLast}

TemplateNames == {Templates[i].name : i \in 1..Len(Templates)} \cup {"no_such_template"}

TemplateLevels == {None, Some("ERROR")}

NextTemplates ==
    \/ \E name \in TemplateNames, context \in Contexts, level \in TemplateLevels :
          SendFromTemplate(name, <<"ops@example.com">>, context, level)
    \/ FacadeSave
    \/ FacadeEnqueue

SpecTemplates == Init /\ [][NextTemplates]_vars

\* C16: send_from_template with a name that is not registered returns None at once:
\* no notification is built, no id is used, and the notifications table, the audit
\* table and the queue are as before; no send is left to do.
C16_UnknownTemplateNoEffect ==
    [][\A name \in TemplateNames, context \in Contexts, level \in TemplateLevels :
         (/\ SendFromTemplate(name, <<"ops@example.com">>, context, level)
          /\ \A i \in 1..Len(Templates) : Templates[i].name # name) =>
             /\ fret'.op = "send_from_template"
             /\ fret'.value = None
             /\ fpc' = "idle"
             /\ freqs' = freqs
             /\ store' = store
             /\ audit' = audit
             /\ queue' = queue
             /\ nextId' = nextId
      ]_vars

\* send_from_template has returned None for an unknown name while a notification
\* sent from a registered template is stored and queued
C16_Witness ==
    /\ fpc = "idle"
    /\ fret.op = "send_from_template"
    /\ fret.arg[1].name = "no_such_template"
    /\ fret.value = None
    /\ DOMAIN store # {}
    /\ queue # <<>>

\* a text with every placeholder of a context variable replaced by the variable's
\* value and everything else kept
RECURSIVE SubstitutedFrom(_, _, _)
SubstitutedFrom(s, i, context) ==
    IF i > Len(s) THEN <<>>
    ELSE IF \E j \in 1..Len(context) : OccursAt(s, i, PH(context[j].var))
    THEN LET j == CHOOSE k \in 1..Len(context) : OccursAt(s, i, PH(context[k].var))
         IN Str(context[j].value) \o SubstitutedFrom(s, i + 3, context)
    ELSE <<s[i]>> \o SubstitutedFrom(s, i + 1, context)

Substituted(s, context) == SubstitutedFrom(s, 1, context)

\* C17 as claimed: the subject and body send_from_template hands to send_notification
\* are the template's subject and body with every placeholder of a context variable
\* replaced by the string of its value and every other placeholder left as it is.
C17_Claim ==
    (fop.op = "send_from_template" /\ fpc = "save") =>
        LET template == GetTemplate(fop.arg[1].name)[1]
            context == fop.arg[1].context
        IN /\ Head(freqs).subject = Substituted(template.subject, context)
           /\ Head(freqs).body = Substituted(template.body, context)

----------------------------------------------------------------------------
(* Lifecycle: the caller starts and stops the worker and sends notifications.
   stop() clears the flag and joins the thread for at most ten seconds; a loop that
   is inside a transport call (smtplib is given no timeout) or has a long pass to
   finish outlives the join, so stop() can return while the loop is at any position.
   A later start() sets the flag again and creates another thread. *)

NextLifecycle ==
    \/ \E level \in SendLevels, recipients \in SendRecipients : SendNotification(level, recipients)
    \/ FacadeSave
    \/ FacadeEnqueue
    \/ Start
    \/ StartAgain
    \/ Stop
    \/ \E t \in Threads : WorkerTop(t)
    \/ \E t \in Threads : WorkerGet(t)
    \/ \E t \in Threads : WorkerProcess(t)
    \/ \E t \in Threads : WorkerSave(t)
    \/ \E t \in Threads : WorkerScan(t)
    \/ \E t \in Threads : WorkerIter(t)

SpecLifecycle == Init /\ [][NextLifecycle]_vars

\* C18 as claimed: once stop() has cleared the flag, no worker loop starts a delivery
\* attempt: it takes no further item from the queue and none from the store scan.
C18_Claim ==
    [][\A t \in Threads :
         (wpc[t] # "process" /\ wpc'[t] = "process" /\ wcur'[t][1].status # "SENT")
             => running
      ]_vars

Alive(t) == wpc[t] \notin {"none", "exited"}

\* C19 as claimed: whatever start() and stop() calls were made, at most one
\* notification is being processed at any moment (no two worker loops are inside
\* _process_notification together).
C19_Claim ==
    Cardinality({t \in Threads : Alive(t) /\ wcur[t] # None}) <= 1

----------------------------------------------------------------------------
(* Storage faults: the caller sends notifications and the worker runs its loop on a
   database of which up to MaxFaults operations raise (a locked or unwritable file);
   save_notification and get_pending_notifications catch the exception and return
   False or [] *)

InitFaults ==
    /\ InitCommon
    /\ emailSender = TRUE
    /\ dbFaults = MaxFaults

NextFaults ==
    \/ \E level \in SendLevels, recipients \in SendRecipients : SendNotification(level, recipients)
    \/ FacadeSave
    \/ FacadeSaveFails
    \/ FacadeEnqueue
    \/ Start
    \/ \E t \in Threads : WorkerTop(t)
    \/ \E t \in Threads : WorkerGet(t)
    \/ \E t \in Threads : WorkerProcess(t)
    \/ \E t \in Threads : WorkerProcessAuditFails(t)
    \/ \E t \in Threads : WorkerSave(t)
    \/ \E t \in Threads : WorkerSaveFails(t)
    \/ \E t \in Threads : WorkerScan(t)
    \/ \E t \in Threads : WorkerScanFails(t)
    \/ \E t \in Threads : WorkerIter(t)

SpecFaults == InitFaults /\ [][NextFaults]_vars

\* C20 as claimed: when the save that ends a processing attempt fails, the stored row
\* of the notification is as before and the notification is still to be processed:
\* it is in the table as PENDING or RETRYING, where the next store scan finds it.
C20_Claim ==
    [][\A t \in Threads :
         WorkerSaveFails(t) =>
             /\ store' = store
             /\ wcur[t][1].id \in PendingIds(store')
      ]_vars

\* C21 as claimed: a notification whose initial save failed is not put on the queue:
\* every notification on the queue has a row in the notifications table.
C21_Claim ==
    \A i \in 1..Len(queue) : queue[i].id \in DOMAIN store

----------------------------------------------------------------------------
(* The save of a processing attempt *)

TransportCalls == stats.sent + stats.failed + stats.retried

\* C22: a processing attempt makes one transport call and then one save of the
\* notification.  The step that makes the transport call writes nothing to the table
\* and leads to the save; the save writes the attempted object as the row of its id,
\* leaves the other rows alone and ends the attempt; and the save is reached from the
\* transport call only.
C22_OneSavePerAttempt ==
    [][\A t \in Threads :
         /\ (wpc[t] = "process" /\ wcur[t][1].status # "SENT" /\ wpc'[t] # "process") =>
                /\ wpc'[t] = "save"
                /\ TransportCalls' = TransportCalls + 1
                /\ stats'.processed = stats.processed
                /\ store' = store
         /\ (wpc[t] # "save" /\ wpc'[t] = "save") =>
                /\ wpc[t] = "process"
                /\ TransportCalls' = TransportCalls + 1
         /\ (wpc[t] = "save" /\ wpc'[t] # "save") =>
                LET n == wcur[t][1] IN
                /\ n.id \in DOMAIN store'
                /\ store'[n.id] = n
                /\ \A i \in DOMAIN store \ {n.id} : i \in DOMAIN store' /\ store'[i] = store[i]
                /\ stats'.processed = stats.processed + 1
                /\ TransportCalls' = TransportCalls
                /\ wcur'[t] = None
                /\ wpc'[t] \in {"scan", "iter"}
      ]_vars

\* two attempts have been made and saved, the second a retry of the first
C22_Witness ==
    /\ stats.processed = 2
    /\ TransportCalls = 2
    /\ \E n \in Rows : n.status = "RETRYING" /\ n.retry_count = 2

\* C23: when the audit append of a successful delivery fails, the attempt goes on to
\* its save with the notification SENT, and that save, unless it fails itself, stores
\* the notification as SENT.
C23_AuditFailureKeepsSave ==
    [][\A t \in Threads :
         /\ WorkerProcessAuditFails(t) =>
                /\ wpc'[t] = "save"
                /\ wcur'[t][1].status = "SENT"
                /\ wcur'[t][1].sent_at = Some(Now)
                /\ audit' = audit
                /\ store' = store
         /\ (wpc[t] = "save" /\ wcur[t][1].status = "SENT" /\ wpc'[t] # "save") =>
                \/ dbFaults' < dbFaults
                \/ /\ wcur[t][1].id \in DOMAIN store'
                   /\ store'[wcur[t][1].id].status = "SENT"
      ]_vars

\* a notification is stored as SENT and the audit table has no entry for it
C23_Witness ==
    \E n \in Rows :
        /\ n.status = "SENT"
        /\ AuditsOf(n.id) = {}
        /\ ~BeingProcessed(n.id)

\* the table after save_notification(n) on table st, as C24 states it: n is the row of
\* its id, the ids are those of st and n.id, every other row is as it was, and a
\* second save of n changes nothing
UpsertOf(st, n, after) ==
    /\ DOMAIN after = DOMAIN st \cup {n.id}
    /\ after[n.id] = n
    /\ \A i \in DOMAIN st \ {n.id} : after[i] = st[i]
    /\ SaveNotification(after, n) = after

\* C24: every save, the caller's and the worker's, is an upsert keyed by id: the saved
\* notification becomes the one row of its id, no row of another id changes, and
\* saving the same notification again leaves the table as it is.
C24_SaveIsIdempotentUpsert ==
    [][/\ \A t \in Threads :
            (wpc[t] = "save" /\ wpc'[t] # "save") => UpsertOf(store, wcur[t][1], store')
       /\ (fpc = "save" /\ fpc' = "enqueue") => UpsertOf(store, fnew'[1], store')
      ]_vars

\* the worker's save has replaced the row of one id while the row of another id is
\* still the one the caller saved
C24_Witness ==
    \E a \in DOMAIN store : \E b \in DOMAIN store :
        /\ a # b
        /\ store[a].status = "RETRYING"
        /\ ~BeingProcessed(a)
        /\ store[b].status = "PENDING"
        /\ seen[b].last = "none"

\* C25 as claimed: from the moment the worker holds its copy of a notification until
\* its own save, nothing writes the stored row of that id (the passing of time, which
\* only ages the stored timestamps, is not a write).
C25_Claim ==
    [][\A t \in Threads :
         (/\ wcur[t] # None
          /\ wcur[t][1].id \in DOMAIN store
          /\ ~(wpc[t] = "save" /\ wpc'[t] # "save")) =>
             \/ Tick
             \/ /\ wcur[t][1].id \in DOMAIN store'
                /\ store'[wcur[t][1].id] = store[wcur[t][1].id]
      ]_vars

----------------------------------------------------------------------------
(* Backoff: notifications built by the caller with their own max_retries are handed
   to the worker, every delivery may fail, and time passes until the retries are due *)

\* worker.add_notification(Notification(..., status = status, max_retries = max_retries));
\* an object that is SENT carries its sent_at
AddNotification(max_retries, status) ==
    /\ fpc = "idle"
    /\ nextId <= MaxNotifs
    /\ queue' = Append(queue,
                       [NewNotification(nextId, "INFO", <<"ops@example.com">>, <<"Notice">>,
                                        <<"text">>, <<>>, Now)
                          EXCEPT !.max_retries = max_retries,
                                 !.status = status,
                                 !.sent_at = IF status = "SENT" THEN Some(Now) ELSE None])
    /\ nextId' = nextId + 1
    /\ UNCHANGED <<storeVars, running, stats, loopVars, rules, fpc, fop, freqs, fids,
                   fnew, fret, envVars, seen>>

NextBackoff ==
    \/ \E max_retries \in {DefaultMaxRetries, MaxRetriesDrawn} :
          AddNotification(max_retries, "PENDING")
    \/ Start
    \/ \E t \in Threads : WorkerTop(t)
    \/ \E t \in Threads : WorkerGet(t)
    \/ \E t \in Threads : WorkerProcess(t)
    \/ \E t \in Threads : WorkerSave(t)
    \/ \E t \in Threads : WorkerScan(t)
    \/ \E t \in Threads : WorkerIter(t)
    \/ Tick

SpecBackoff == Init /\ [][NextBackoff]_vars

\* the delay in minutes C26 gives for the incremented retry_count
BackoffTable(retry_count) ==
    CASE retry_count = 1 -> 2
      [] retry_count = 2 -> 4
      [] retry_count = 3 -> 8
      [] retry_count = 4 -> 16
      [] retry_count = 5 -> 32
      [] retry_count >= 6 -> 60

\* C26: a failed attempt on a notification with retry_count < max_retries adds exactly
\* 1 to retry_count, sets the status RETRYING and sets next_retry to the current time
\* plus min(2^retry_count, 60) minutes of the incremented retry_count: 2, 4, 8, 16, 32
\* minutes for 1..5 and 60 minutes from 6 on.
C26_RetryBackoff ==
    [][\A t \in Threads :
         (/\ wpc[t] = "process"
          /\ wpc'[t] = "save"
          /\ wcur[t][1].retry_count < wcur[t][1].max_retries
          /\ seen'[wcur[t][1].id].last = "fail"
          /\ stats'.retried + stats'.failed = stats.retried + stats.failed + 1) =>
             LET n == wcur[t][1]
                 m == wcur'[t][1]
             IN /\ m.retry_count = n.retry_count + 1
                /\ m.status = "RETRYING"
                /\ m.next_retry = Some(Now + Min(Pow2(m.retry_count), 60))
                /\ m.next_retry = Some(Now + BackoffTable(m.retry_count))
                /\ stats'.retried = stats.retried + 1
      ]_vars

\* a notification has failed seven times: its seventh retry is stored, due in 60 minutes
C26_Witness ==
    \E n \in Rows :
        /\ n.status = "RETRYING"
        /\ n.retry_count = MaxRetriesDrawn
        /\ n.next_retry = Some(60)
        /\ ~BeingProcessed(n.id)

----------------------------------------------------------------------------
(* Guard: the worker is handed notification objects that are still PENDING and
   objects that are already SENT, next to the notifications the caller sends, and
   time passes *)

NextGuard ==
    \/ \E status \in {"PENDING", "SENT"} : AddNotification(DefaultMaxRetries, status)
    \/ \E level \in SendLevels, recipients \in SendRecipients : SendNotification(level, recipients)
    \/ FacadeSave
    \/ FacadeEnqueue
    \/ Start
    \/ \E t \in Threads : WorkerTop(t)
    \/ \E t \in Threads : WorkerGet(t)
    \/ \E t \in Threads : WorkerProcess(t)
    \/ \E t \in Threads : WorkerSave(t)
    \/ \E t \in Threads : WorkerScan(t)
    \/ \E t \in Threads : WorkerIter(t)
    \/ Tick

SpecGuard == Init /\ [][NextGuard]_vars

\* C27: _process_notification on an object whose status is SENT does nothing: no
\* transport call, no save, no audit entry, no counter changes, every other copy of
\* the notification keeps its fields, and the loop goes on.
C27_SentIsNoOp ==
    [][\A t \in Threads :
         (wpc[t] = "process" /\ wcur[t][1].status = "SENT" /\ wpc'[t] # "process") =>
             /\ seen' = seen
             /\ stats' = stats
             /\ store' = store
             /\ audit' = audit
             /\ queue' = queue
             /\ wpending' = wpending
             /\ wpc'[t] \in {"scan", "iter"}
             /\ wcur'[t] = None
      ]_vars

\* the worker has taken a SENT object from the queue and is done with it: nothing
\* was sent, saved or counted
C27_Witness ==
    /\ nextId = 2
    /\ fpc = "idle"
    /\ queue = <<>>
    /\ \A t \in Threads : wcur[t] = None
    /\ \E t \in Threads : wpc[t] = "scan" /\ wfrom[t] = "queue"
    /\ store = <<>>
    /\ audit = <<>>
    /\ TransportCalls = 0
    /\ stats.processed = 0

----------------------------------------------------------------------------
(* Queue: the caller sends its notifications before it starts the worker, so every
   queue item is in the queue when the worker's loop iterations begin *)

\* send_notification called while no worker thread has been started
SendBeforeStart(level, recipients) ==
    /\ \A t \in Threads : wpc[t] = "none"
    /\ SendNotification(level, recipients)

NextQueue ==
    \/ \E level \in SendLevels, recipients \in SendRecipients : SendBeforeStart(level, recipients)
    \/ FacadeSave
    \/ FacadeEnqueue
    \/ Start
    \/ \E t \in Threads : WorkerTop(t)
    \/ \E t \in Threads : WorkerGet(t)
    \/ \E t \in Threads : WorkerProcess(t)
    \/ \E t \in Threads : WorkerSave(t)
    \/ \E t \in Threads : WorkerScan(t)
    \/ \E t \in Threads : WorkerIter(t)
    \/ Tick

SpecQueue == Init /\ [][NextQueue]_vars

\* C28 as claimed: the worker begins the store scan of an iteration only when every
\* item that was in the queue at the start of the iteration has been taken; with all
\* items queued before the worker starts, the queue is empty when a scan begins.
C28_Claim ==
    [][\A t \in Threads : (wpc[t] # "scan" /\ wpc'[t] = "scan") => queue' = <<>>]_vars

\* C29: in the store scan every notification of the list is PENDING or RETRYING; one
\* whose next_retry is set and later than the current time is passed over with no
\* transport call, no save and its row unchanged; every other one is handed to
\* _process_notification; and the pass ends only when the list is exhausted.
C29_ScanSkipsOnlyFutureRetries ==
    [][\A t \in Threads :
         /\ \A i \in 1..Len(wpending[t]) : wpending[t][i].status \in {"PENDING", "RETRYING"}
         /\ (wpc[t] = "iter" /\ wpc'[t] = "top") => wpending[t] = <<>>
         /\ (wpc[t] = "iter" /\ Len(wpending'[t]) < Len(wpending[t])) =>
                LET n == Head(wpending[t]) IN
                /\ wpending'[t] = Tail(wpending[t])
                /\ IF n.next_retry # None /\ n.next_retry[1] > Now
                   THEN /\ wpc'[t] = "iter"
                        /\ wcur' = wcur
                        /\ store' = store
                        /\ audit' = audit
                        /\ stats' = stats
                        /\ seen' = seen
                   ELSE /\ wpc'[t] = "process"
                        /\ wcur'[t] = Some(n)
      ]_vars

\* one scan pass has passed over notification 1, which is RETRYING and not yet due,
\* and has handed notification 2 to _process_notification
C29_Witness ==
    /\ 1 \in DOMAIN store
    /\ store[1].status = "RETRYING"
    /\ store[1].next_retry # None
    /\ store[1].next_retry[1] > Now
    /\ stats.processed = 1
    /\ \E t \in Threads :
          /\ wpc[t] = "process"
          /\ wfrom[t] = "scan"
          /\ wcur[t][1].id = 2
          /\ wpending[t] = <<>>

\* C30: the list get_pending_notifications returns holds exactly the stored rows whose
\* status is PENDING or RETRYING, each once and as stored, in ascending created_at;
\* and the scan hands them to _process_notification from the front, so the one being
\* processed is no younger than any still waiting in the list.
C30_PendingOldestFirst ==
    [][\A t \in Threads :
         /\ (wpc[t] = "scan" /\ wpc'[t] = "iter") =>
                LET p == wpending'[t] IN
                /\ {p[i].id : i \in 1..Len(p)} =
                       {i \in DOMAIN store : store[i].status \in {"PENDING", "RETRYING"}}
                /\ \A i \in 1..Len(p) : p[i] = store[p[i].id]
                /\ \A i, j \in 1..Len(p) : i # j => p[i].id # p[j].id
                /\ \A i, j \in 1..Len(p) : i < j => p[i].created_at <= p[j].created_at
         /\ (wpc[t] = "iter" /\ wpc'[t] = "process") =>
                /\ wcur'[t] = Some(Head(wpending[t]))
                /\ \A i \in 1..Len(wpending'[t]) :
                       wcur'[t][1].created_at <= wpending'[t][i].created_at
      ]_vars

\* the scan returned two notifications created at different times and the worker
\* is processing the older one while the younger one waits in the list
C30_Witness ==
    \E t \in Threads :
        /\ wpc[t] = "process"
        /\ wfrom[t] = "scan"
        /\ Len(wpending[t]) = 1
        /\ wcur[t][1].created_at < wpending[t][1].created_at

----------------------------------------------------------------------------
(* AlertRuleManager: evaluation, registration and enabling *)

\* the positions of the rules named name
PositionsOf(rs, name) == {i \in 1..Len(rs) : rs[i].name = name}

\* C31: evaluate_event goes through the enabled rules only, in registration order,
\* and returns those whose condition is true; register_rule under a name already
\* held replaces that rule where it stands and leaves the others, under a new name
\* it adds the rule at the end; enable_rule and disable_rule on a name that is not
\* registered change nothing and return False, on a registered name they return True
\* and change that rule's flag only.
C31_RuleManager ==
    [][/\ \A event \in Events :
            HandleEvent(event) =>
                LET exp == MatchingRules(event)
                    got == IF fpc' = "save" THEN freqs' ELSE <<>>
                IN /\ EvaluateEvent(rules, event) = exp
                   /\ \A i \in 1..Len(exp) : exp[i].enabled
                   /\ \A i, j \in 1..Len(exp) : i < j =>
                          \E a, b \in 1..Len(rules) :
                              a < b /\ rules[a] = exp[i] /\ rules[b] = exp[j]
                   /\ Len(got) = Len(exp)
                   /\ \A i \in 1..Len(exp) : got[i].metadata.rule_name = exp[i].name
       /\ \A rule \in {migration_error_rule, high_memory_rule} :
            (fret'.op = "register_alert_rule" /\ RegisterRule(rule)) =>
                /\ Cardinality(PositionsOf(rules', rule.name)) = 1
                /\ \A i \in PositionsOf(rules', rule.name) : rules'[i] = rule
                /\ \A i \in 1..Len(rules) : rules[i].name # rule.name => rules'[i] = rules[i]
                /\ IF PositionsOf(rules, rule.name) # {}
                   THEN /\ Len(rules') = Len(rules)
                        /\ PositionsOf(rules', rule.name) = PositionsOf(rules, rule.name)
                   ELSE /\ Len(rules') = Len(rules) + 1
                        /\ rules'[Len(rules')] = rule
       /\ \A name \in RuleNames : \A flag \in BOOLEAN :
            (\/ flag /\ fret'.op = "enable_rule" /\ EnableRule(name)
             \/ ~flag /\ fret'.op = "disable_rule" /\ DisableRule(name)) =>
                IF PositionsOf(rules, name) = {}
                THEN rules' = rules /\ fret'.value = <<FALSE>>
                ELSE /\ fret'.value = <<TRUE>>
                     /\ Len(rules') = Len(rules)
                     /\ \A i \in 1..Len(rules) :
                            rules'[i] = IF rules[i].name = name
                                        THEN [rules[i] EXCEPT !.enabled = flag]
                                        ELSE rules[i]
      ]_vars

\* register_rule has just replaced the first of two registered rules, which was
\* disabled before, while the second stays disabled
C31_Witness ==
    /\ fret.op = "register_alert_rule"
    /\ Len(rules) = 2
    /\ fret.arg = Some(rules[1].name)
    /\ rules[1].enabled
    /\ ~rules[2].enabled

----------------------------------------------------------------------------
(* Transport: every delivery may succeed, report a failure or raise, while the
   caller sends notifications and time passes *)

NextTransport ==
    \/ \E level \in SendLevels, recipients \in SendRecipients : SendNotification(level, recipients)
    \/ FacadeSave
    \/ FacadeEnqueue
    \/ Start
    \/ \E t \in Threads : WorkerTop(t)
    \/ \E t \in Threads : WorkerGet(t)
    \/ \E t \in Threads : WorkerProcess(t)
    \/ \E t \in Threads : WorkerProcessRaises(t)
    \/ \E t \in Threads : WorkerSave(t)
    \/ \E t \in Threads : WorkerScan(t)
    \/ \E t \in Threads : WorkerIter(t)
    \/ Tick

SpecTransport == Init /\ [][NextTransport]_vars

\* C32: a delivery that reports a failure or raises is handled as a failed attempt:
\* the notification becomes RETRYING with a backoff, or FAILED when no retry is left,
\* its error_message is the reason, and it is saved; the worker keeps the rest of
\* its list, goes on with its loop and never leaves it.
C32_TransportFailureHandled ==
    [][\A t \in Threads :
         /\ wpc'[t] # "exited"
         /\ ((wpc[t] = "process" /\ wpc'[t] = "save" /\ stats'.sent = stats.sent)
               \/ WorkerProcessRaises(t)) =>
                LET n == wcur[t][1] IN
                /\ wpc'[t] = "save"
                /\ wcur'[t] # None
                /\ wcur'[t][1].status = IF n.retry_count < n.max_retries
                                        THEN "RETRYING" ELSE "FAILED"
                /\ wcur'[t][1].status = "RETRYING" =>
                       /\ wcur'[t][1].next_retry # None
                       /\ wcur'[t][1].next_retry[1] > Now
                /\ wcur'[t][1].error_message \in {Some("SMTP error"), Some("connection refused")}
                /\ wpending'[t] = wpending[t]
                /\ queue' = queue
         /\ (wpc[t] = "save" /\ wpc'[t] # "save") =>
                /\ wpc'[t] = (IF wfrom[t] = "queue" THEN "scan" ELSE "iter")
                /\ wpending'[t] = wpending[t]
      ]_vars

\* a notification whose delivery raised is stored FAILED with the exception's text,
\* and the worker has since delivered the other notification
C32_Witness ==
    \E a \in DOMAIN store : \E b \in DOMAIN store :
        /\ store[a].status = "FAILED"
        /\ store[a].error_message = Some("connection refused")
        /\ store[b].status = "SENT"
        /\ \E i \in 1..Len(audit) : audit[i].notification_id = b /\ audit[i].timestamp = Now
        /\ store[a].next_retry # None /\ store[a].next_retry[1] < Now

\* C33 as claimed: once the stored status of a notification is FAILED it stays
\* FAILED, so that get_notification and get_notifications_by_status(FAILED) keep
\* returning it, cleanup included; and no transport call is made for it any more.
C33_Claim ==
    [][\A i \in DOMAIN store :
         store[i].status = "FAILED" =>
             /\ i \in DOMAIN store'
             /\ store'[i].status = "FAILED"
             /\ \A t \in Threads :
                    ~(wpc[t] = "process" /\ wcur[t][1].id = i /\ wpc'[t] = "save")
      ]_vars

----------------------------------------------------------------------------
(* Lifecycle with progress: as SpecLifecycle, and every worker thread that has been
   started keeps taking steps (its transport calls, saves and sleeps all return) *)

\* one step of the loop run by thread t
WorkerStep(t) ==
    \/ WorkerTop(t)
    \/ WorkerGet(t)
    \/ WorkerProcess(t)
    \/ WorkerSave(t)
    \/ WorkerScan(t)
    \/ WorkerIter(t)

SpecLifecycleFair ==
    /\ Init
    /\ [][NextLifecycle]_vars
    /\ \A t \in Threads : WF_vars(WorkerStep(t))

\* C34 as claimed: once stop() has cleared the flag, every worker loop that is still
\* running eventually exits; and a loop exits only at the top of an iteration, never
\* while it holds a notification whose attempt is not yet saved.
C34_Claim ==
    /\ \A t \in Threads : [](( ~running /\ Alive(t)) => <>(wpc[t] = "exited"))
    /\ [][\A t \in Threads :
            (wpc[t] # "exited" /\ wpc'[t] = "exited") => (wpc[t] = "top" /\ wcur[t] = None)
         ]_vars

----------------------------------------------------------------------------
(* Progress: the caller sends notifications and starts the worker, which is never
   stopped; every call of the caller completes, the loop keeps taking steps (each
   transport call and each save returns) and time keeps passing *)

NextProgress ==
    \/ \E level \in SendLevels, recipients \in SendRecipients : SendNotification(level, recipients)
    \/ FacadeSave
    \/ FacadeEnqueue
    \/ Start
    \/ \E t \in Threads : WorkerTop(t)
    \/ \E t \in Threads : WorkerGet(t)
    \/ \E t \in Threads : WorkerProcess(t)
    \/ \E t \in Threads : WorkerSave(t)
    \/ \E t \in Threads : WorkerScan(t)
    \/ \E t \in Threads : WorkerIter(t)
    \/ Tick

SpecProgress ==
    /\ Init
    /\ [][NextProgress]_vars
    /\ WF_vars(FacadeSave \/ FacadeEnqueue)
    /\ WF_vars(Start)
    /\ \A t \in Threads : WF_vars(WorkerStep(t))
    /\ WF_vars(Tick)

\* C35: every notification that send_notification has stored eventually has the
\* stored status SENT or FAILED (or ARCHIVED), whatever else is queued.
C35_EventuallyTerminal ==
    \A i \in Ids :
        (i \in DOMAIN store) ~>
            (i \in DOMAIN store /\ store[i].status \in {"SENT", "FAILED", "ARCHIVED"})

\* two notifications were sent; one has ended FAILED after all its retries and the
\* other has been delivered
C35_Witness ==
    /\ DOMAIN store = {1, 2}
    /\ \E a, b \in {1, 2} :
          /\ store[a].status = "FAILED"
          /\ store[a].retry_count = DefaultMaxRetries
          /\ store[b].status = "SENT"
    /\ queue = <<>>
    /\ \A t \in Threads : wcur[t] = None

\* C36 as claimed: no transport call is made for a notification whose stored row is
\* RETRYING with a next_retry later than the current time, whether the worker took
\* the notification from the store scan or from the queue.
C36_Claim ==
    [][\A t \in Threads :
         (wpc[t] = "process" /\ wpc'[t] = "save") =>
             LET i == wcur[t][1].id IN
             ~(/\ i \in DOMAIN store
               /\ store[i].status = "RETRYING"
               /\ store[i].next_retry # None
               /\ store[i].next_retry[1] > Now)
      ]_vars

\* C37 as claimed: once the worker is done with a notification, the audit table has
\* a SENT entry for it only if its stored status is SENT or ARCHIVED, and never more
\* than one, also after a save that failed.
C37_Claim ==
    \A i \in Ids :
        /\ (SentAudits(i) # {} /\ ~BeingProcessed(i)) =>
               (i \in DOMAIN store /\ store[i].status \in {"SENT", "ARCHIVED"})
        /\ Cardinality(SentAudits(i)) <= 1

----------------------------------------------------------------------------
(* No sender: NotificationSystem constructed without email_config, so the worker's
   email_sender is None; calls complete, the loop keeps running and time passes *)

InitNoSender ==
    /\ InitCommon
    /\ emailSender = FALSE
    /\ dbFaults = 0

SpecNoSender ==
    /\ InitNoSender
    /\ [][NextProgress]_vars
    /\ WF_vars(FacadeSave \/ FacadeEnqueue)
    /\ WF_vars(Start)
    /\ \A t \in Threads : WF_vars(WorkerStep(t))
    /\ WF_vars(Tick)

\* C38: without an email sender, send_notification still stores and queues the
\* notification and returns its id; no notification is ever SENT and none gets an
\* error_message; every processing attempt is a failed one (RETRYING with one more
\* retry, or FAILED when none is left); and every stored notification eventually is
\* FAILED.
C38_NoSenderEndsFailed ==
    /\ [](/\ \A n \in AllNotifications : n.status # "SENT" /\ n.error_message = None
          /\ stats.sent = 0
          /\ audit = <<>>
          /\ (fpc = "idle" /\ fret.op = "send_notification") =>
                 /\ Len(fret.value) = 1
                 /\ fret.value[1] \in DOMAIN store)
    /\ [][/\ (fpc = "enqueue" /\ fpc' = "idle") =>
               /\ queue' = Append(queue, fnew[1])
               /\ fnew[1].id \in DOMAIN store
               /\ fret'.value = <<fnew[1].id>>
          /\ \A t \in Threads :
               (wpc[t] = "process" /\ wpc'[t] # "process") =>
                   /\ wpc'[t] = "save"
                   /\ wcur'[t][1].status =
                          IF wcur[t][1].retry_count < wcur[t][1].max_retries
                          THEN "RETRYING" ELSE "FAILED"
                   /\ wcur'[t][1].status = "RETRYING" =>
                          wcur'[t][1].retry_count = wcur[t][1].retry_count + 1
         ]_vars
    /\ \A i \in Ids :
          (i \in DOMAIN store) ~> (i \in DOMAIN store /\ store[i].status = "FAILED")

\* without a sender a notification has gone through its three retries and is stored
\* FAILED with no error_message
C38_Witness ==
    /\ ~emailSender
    /\ \E n \in Rows :
          /\ n.status = "FAILED"
          /\ n.retry_count = DefaultMaxRetries
          /\ n.error_message = None
          /\ seen[n.id].fail

\* C39: whenever no attempt is between its transport call and its save, processed
\* equals sent + failed + retried; an attempt that calls the transport adds 1 to
\* exactly one of sent, failed and retried, and its save adds 1 to processed; the
\* return on a SENT object changes no counter.
C39_CountersBalance ==
    /\ []((\A t \in Threads : wpc[t] # "save") =>
              stats.processed = stats.sent + stats.failed + stats.retried)
    /\ [][(\A t \in Threads : wpc[t] \notin {"process", "save"}) => stats' = stats]_vars
    /\ [][\A t \in Threads :
            /\ (wpc[t] = "process" /\ wpc'[t] = "save") =>
                   /\ stats'.processed = stats.processed
                   /\ \/ stats' = [stats EXCEPT !.sent = @ + 1]
                      \/ stats' = [stats EXCEPT !.failed = @ + 1]
                      \/ stats' = [stats EXCEPT !.retried = @ + 1]
            /\ (wpc[t] = "save" /\ wpc'[t] # "save") =>
                   stats' = [stats EXCEPT !.processed = @ + 1]
            /\ (wpc[t] = "process" /\ wpc'[t] \notin {"process", "save"}) =>
                   /\ wcur[t][1].status = "SENT"
                   /\ stats' = stats
         ]_vars

\* the worker has returned at once on a SENT object it was handed and has taken the
\* other notification through three retries to FAILED: four attempts, four counted
C39_Witness ==
    /\ nextId = 3
    /\ fpc = "idle"
    /\ queue = <<>>
    /\ \A t \in Threads : wcur[t] = None
    /\ Cardinality(DOMAIN store) = 1
    /\ \A n \in Rows : n.status = "FAILED"
    /\ stats = [sent |-> 0, failed |-> 1, retried |-> 3, processed |-> 4]

====
